---- MODULE Spec2Model ----
(***************************************************************************)
(* A model of the avenir concurrency primitives:                           *)
(*   - avenir::ThreadPool  (include/ThreadPool.h, source/ThreadPool.cpp)   *)
(*   - avenir::queue<T>    (avenir.h)                                      *)
(* Every thread of the program is a process of the model; a step of the    *)
(* model is one atomic region of the code (a critical section of a mutex,  *)
(* one operation on an atomic, one notification).                          *)
(***************************************************************************)
EXTENDS Integers, Sequences, FiniteSets, TLC

(***************************************************************************)
(* Bounds of the model.                                                    *)
(***************************************************************************)
MaxTasks == 3       \* callables submitted with pushJob, over both pools
MaxWorkers == 2     \* worker threads ever spawned, over both pools
MaxArg == 2         \* largest numThreads handed to addThreads / removeThreads
MaxItems == 3       \* items pushed into the queues
MaxQThreads == 2    \* threads using the queues
MaxSplices == 1     \* calls of splice per thread, where the calls are counted
MaxChannels == 2    \* channel states ever allocated
MaxPromises == 2    \* promise objects
MaxFutures == 2     \* Future objects
MaxValue == 2       \* values handed to a promise

Pools == {1, 2}                 \* two ThreadPool objects
Tasks == 1 .. MaxTasks          \* a task is named by its input
Workers == 1 .. MaxWorkers      \* std::jthread objects, in spawn order
NoTask == 0
NoWorker == 0
Queues == {1, 2}                \* two avenir::queue<T> objects
Items == 1 .. MaxItems          \* items, in the order they are pushed
QThreads == 1 .. MaxQThreads
Unlocked == 0
Channels == 1 .. MaxChannels    \* promise<T>::state objects, in order of allocation
Promises == 1 .. MaxPromises
Futures == 1 .. MaxFutures
Values == 1 .. MaxValue
Null == 0                       \* an empty std::shared_ptr
StatusUnset == 0                \* promise<void>::state::status
StatusReady == 1
StatusBroken == 2

VARIABLES
    m_pool,          \* [Pools -> Seq(Workers)]   std::stack<std::jthread>, top last
    m_jobQueue,      \* [Pools -> Seq(Tasks)]     std::list<std::packaged_task<void()>>
    m_queueMutex,    \* [Pools -> Workers \cup {NoWorker}]  holder of the mutex
    m_waitFlag,      \* [Pools -> BOOLEAN]        std::atomic_flag
    wpc,             \* [Workers -> position of the worker in its loop]
    wpool,           \* [Workers -> Pools \cup {0}]   the pool whose `this` it captured
    stop_requested,  \* [Workers -> BOOLEAN]      the jthread's stop state
    job,             \* [Workers -> Tasks \cup {NoTask}]  the local `job`
    fut,             \* [Tasks -> shared state of the std::future pushJob returned]
    execCount,       \* [Tasks -> Nat]   how often the callable's body ran
    dequeuedBy,      \* [Tasks -> SUBSET Workers]  who took it out of the list
    movedFrom,       \* [Tasks -> Pools \cup {0}]  the pool moveTasks last took it from
    nextTask,        \* next input to submit
    nextWorker,      \* next jthread to spawn
    notifyPending,   \* [Pools -> 0 .. 1]  the submitter is between unlock and notify_one
    ctl,             \* [Pools -> the thread resizing / destroying the pool]
    waitPc,          \* [Pools -> position of the thread calling waitTilEmpty]
    batch,           \* the list moveTasks returned, not yet handed to pushTasks
    heldAtStop,      \* [Workers -> Tasks \cup {NoTask}]  the task in hand when its stop was requested
    inPool,          \* [Tasks -> Pools \cup {0}]  the pool whose list last received it
    adder,           \* a second thread calling addThreads
    m_deque,         \* [Queues -> Seq(Items)]   avenir::queue::m_deque
    m_mtx,           \* [Queues -> QThreads \cup {0}]  holder of avenir::queue::m_mtx
    qpc,             \* [QThreads -> position of a thread using the queues]
    qarg,            \* [QThreads -> the queues its current call works on]
    got,             \* [QThreads -> Seq(Items)]  what pop / wait returned to it
    nextItem,        \* next item to push
    spliceCalls,     \* [QThreads -> Nat]  calls of splice the thread has entered
    sizeSeen,        \* [QThreads -> what size() last returned to it, -1 before]
    status,          \* [Channels -> 0 .. 2]  promise<void>::state::status
    storage,         \* [Channels -> Values \cup {0}]  promise<T>::state::storage
    m_state,         \* [Promises -> Channels \cup {Null}]  promise::m_state
    plive,           \* [Promises -> BOOLEAN]  the promise object exists
    nextChannel,     \* next channel state to allocate
    setCalled,       \* [Channels -> Values \cup {0}]  the value set() was called with
    m_statePtr,      \* [Futures -> Channels \cup {Null}]  Future::m_statePtr
    flive,           \* [Futures -> BOOLEAN]  the Future object exists
    ready_flag,      \* [Channels -> BOOLEAN]  Future::State::ready_flag
    valid_flag,      \* [Channels -> BOOLEAN]  Future::State::valid_flag
    fpc,             \* [Futures -> the call the Future's user is in]
    isValidCall      \* [Futures -> the last isValid() call: pointer and outcome]

poolVars == <<m_pool, m_jobQueue, m_queueMutex, m_waitFlag, wpc, wpool,
              stop_requested, job, fut, execCount, dequeuedBy, movedFrom, nextTask,
              nextWorker, notifyPending, ctl, waitPc, batch, inPool, heldAtStop>>

queueVars == <<m_deque, m_mtx, qpc, qarg, got, nextItem>>

\* what the calls of QSpec never touch
queueAux == <<spliceCalls, sizeSeen>>

chanVars == <<status, storage, m_state, plive, nextChannel, setCalled, m_statePtr,
              flive, ready_flag, valid_flag, fpc, isValidCall>>

vars == <<poolVars, adder, queueVars, queueAux, chanVars>>

\* what the threads of a pool's own API never touch
others == <<adder, queueVars, queueAux, chanVars>>

(***************************************************************************)
(* Helpers.                                                                *)
(***************************************************************************)
Min(a, b) == IF a < b THEN a ELSE b

Range(s) == {s[i] : i \in 1 .. Len(s)}

\* std::stack::top / pop / emplace on the underlying container
Top(s) == s[Len(s)]
PopNothing(s) == s
Pop(s) == SubSeq(s, 1, Len(s) - 1)
Emplace(s, w) == Append(s, w)

\* getThreadCount
getThreadCount(p) == Len(m_pool[p])

\* jobsRemaining
jobsRemaining(p) == Len(m_jobQueue[p])

\* the callable of the scenario: returns its input doubled
Callable(t) == 2 * t

Unset == [st |-> "unset", val |-> 0]
Broken == [st |-> "broken", val |-> 0]
Ready(v) == [st |-> "ready", val |-> v]

\* std::list::front and pop_front, as the worker uses them
Front(q) == Head(q)
PopFrontForgotten(q) == q
PopFront(q) == Tail(q)

SpliceFirstOnly(q, other) == IF other = <<>> THEN q ELSE Append(q, Head(other))

\* std::list::splice(end, other): the elements of other, in order, at the tail
Splice(q, other) == q \o other

\* the workers of pool p blocked inside m_cv.wait
Blocked(p) == {w \in Workers : wpool[w] = p /\ wpc[w] = "waiting"}

\* m_cv.notify_all(): every blocked worker of the pool re-evaluates its wait
NotifyAll(p, pcs) ==
    [w \in Workers |-> IF wpool[w] = p /\ pcs[w] = "waiting" THEN "start" ELSE pcs[w]]

\* a pool object whose destructor has not begun
Usable(p) == ctl[p].op # "destroy"

IdleCtl == [pc |-> "idle", op |-> "none", n |-> 0, i |-> 0, limit |-> 0,
            c0 |-> 0, sel |-> {}]

(***************************************************************************)
(* Construction: ThreadPool(numThreads) on both pools.                     *)
(***************************************************************************)
\* nts: the pairs <<numThreads of pool 1, numThreads of pool 2>> to construct with
Init(nts) ==
    \E nt \in nts :
        /\ m_pool = [p \in Pools |->
                        IF p = 1 THEN [i \in 1 .. nt[1] |-> i]
                                 ELSE [i \in 1 .. nt[2] |-> nt[1] + i]]
        /\ wpc = [w \in Workers |-> IF w <= nt[1] + nt[2] THEN "start" ELSE "unborn"]
        /\ wpool = [w \in Workers |-> IF w <= nt[1] THEN 1
                                      ELSE IF w <= nt[1] + nt[2] THEN 2 ELSE 0]
        /\ nextWorker = nt[1] + nt[2] + 1
        /\ m_jobQueue = [p \in Pools |-> <<>>]
        /\ m_queueMutex = [p \in Pools |-> NoWorker]
        /\ m_waitFlag = [p \in Pools |-> FALSE]
        /\ stop_requested = [w \in Workers |-> FALSE]
        /\ job = [w \in Workers |-> NoTask]
        /\ fut = [t \in Tasks |-> Unset]
        /\ execCount = [t \in Tasks |-> 0]
        /\ dequeuedBy = [t \in Tasks |-> {}]
        /\ movedFrom = [t \in Tasks |-> 0]
        /\ nextTask = 1
        /\ notifyPending = [p \in Pools |-> 0]
        /\ ctl = [p \in Pools |-> IdleCtl]
        /\ waitPc = [p \in Pools |-> "idle"]
        /\ batch = <<>>
        /\ inPool = [t \in Tasks |-> 0]
        /\ heldAtStop = [w \in Workers |-> NoTask]

(***************************************************************************)
(* The worker loop (the lambda of addThreads).                             *)
(***************************************************************************)
StopOverlooked(w) == FALSE

\* line 29: if(stoken.stop_requested()) return;
StopSeen(w) == stop_requested[w]

\* lines 27-29: lock, m_cv.wait(lock, stoken, pred), the stop check
WorkerLock(w) ==
    LET p == wpool[w] IN
    /\ wpc[w] = "start"
    /\ m_queueMutex[p] = NoWorker
    /\ IF StopSeen(w)
         THEN /\ wpc' = [wpc EXCEPT ![w] = "exited"]
              /\ UNCHANGED m_queueMutex
         ELSE IF m_jobQueue[p] # <<>>
           THEN /\ wpc' = [wpc EXCEPT ![w] = "popping"]
                /\ m_queueMutex' = [m_queueMutex EXCEPT ![p] = w]
           ELSE /\ wpc' = [wpc EXCEPT ![w] = "waiting"]
                /\ UNCHANGED m_queueMutex
    /\ UNCHANGED <<m_pool, m_jobQueue, m_waitFlag, wpool, stop_requested, job, fut,
                   execCount, dequeuedBy, movedFrom, nextTask, nextWorker,
                   notifyPending, ctl, waitPc, batch, inPool, heldAtStop, others>>

\* lines 31-34: job = move(front); pop_front; unlock
WorkerPop(w) ==
    LET p == wpool[w] IN
    /\ wpc[w] = "popping"
    /\ m_queueMutex[p] = w
    /\ job' = [job EXCEPT ![w] = Front(m_jobQueue[p])]
    /\ dequeuedBy' = [dequeuedBy EXCEPT ![Front(m_jobQueue[p])] = @ \cup {w}]
    /\ m_jobQueue' = [m_jobQueue EXCEPT ![p] = PopFront(@)]
    /\ m_queueMutex' = [m_queueMutex EXCEPT ![p] = NoWorker]
    /\ wpc' = [wpc EXCEPT ![w] = "run"]
    /\ UNCHANGED <<m_pool, m_waitFlag, wpool, stop_requested, fut, execCount, movedFrom,
                   nextTask, nextWorker, notifyPending, ctl, waitPc, batch,
                   inPool, heldAtStop, others>>

\* line 36: job() runs the packaged_task, which stores the callable's result
WorkerRun(w) ==
    /\ wpc[w] = "run"
    /\ execCount' = [execCount EXCEPT ![job[w]] = @ + 1]
    /\ fut' = [fut EXCEPT ![job[w]] = IF @.st = "unset" THEN Ready(Callable(job[w])) ELSE @]
    /\ wpc' = [wpc EXCEPT ![w] = "check"]
    /\ UNCHANGED <<m_pool, m_jobQueue, m_queueMutex, m_waitFlag, wpool,
                   stop_requested, job, dequeuedBy, movedFrom, nextTask, nextWorker,
                   notifyPending, ctl, waitPc, batch, inPool, heldAtStop, others>>

\* line 44: if(stoken.stop_requested()) return; else the next iteration
AtLoopEnd(w) == IF stop_requested[w] THEN "exited" ELSE "start"

\* line 38: if(m_jobQueue.empty()), read without the mutex; when the list is not
\* empty the iteration ends with line 44
WorkerCheck(w) ==
    /\ wpc[w] = "check"
    /\ wpc' = [wpc EXCEPT ![w] = IF m_jobQueue[wpool[w]] = <<>> THEN "clear"
                                 ELSE AtLoopEnd(w)]
    /\ job' = [job EXCEPT ![w] = NoTask]
    /\ UNCHANGED <<m_pool, m_jobQueue, m_queueMutex, m_waitFlag, wpool,
                   stop_requested, fut, execCount, dequeuedBy, movedFrom, nextTask,
                   nextWorker, notifyPending, ctl, waitPc, batch, inPool,
                   heldAtStop, others>>

\* lines 40-44: m_waitFlag.clear(); m_waitFlag.notify_all(); then line 44
WorkerClear(w) ==
    /\ wpc[w] = "clear"
    /\ m_waitFlag' = [m_waitFlag EXCEPT ![wpool[w]] = FALSE]
    /\ wpc' = [wpc EXCEPT ![w] = AtLoopEnd(w)]
    /\ UNCHANGED <<m_pool, m_jobQueue, m_queueMutex, wpool, stop_requested, job, fut,
                   execCount, dequeuedBy, movedFrom, nextTask, nextWorker,
                   notifyPending, ctl, waitPc, batch, inPool, heldAtStop,
                   others>>

\* a condition variable may wake a blocked thread without a notification
SpuriousWake(w) ==
    /\ wpc[w] = "waiting"
    /\ wpc' = [wpc EXCEPT ![w] = "start"]
    /\ UNCHANGED <<m_pool, m_jobQueue, m_queueMutex, m_waitFlag, wpool,
                   stop_requested, job, fut, execCount, dequeuedBy, movedFrom, nextTask,
                   nextWorker, notifyPending, ctl, waitPc, batch, inPool, heldAtStop, others>>

WorkerStep(w) ==
    \/ WorkerLock(w)
    \/ WorkerPop(w)
    \/ WorkerRun(w)
    \/ WorkerCheck(w)
    \/ WorkerClear(w)

(***************************************************************************)
(* pushJob (ThreadPool.h).                                                 *)
(***************************************************************************)
\* lines 32-39: wrap f, lock, emplace_back, unlock
PushJob(p) ==
    /\ Usable(p)
    /\ notifyPending[p] = 0
    /\ nextTask <= MaxTasks
    /\ m_queueMutex[p] = NoWorker
    /\ m_jobQueue' = [m_jobQueue EXCEPT ![p] = Append(@, nextTask)]
    /\ inPool' = [inPool EXCEPT ![nextTask] = p]
    /\ nextTask' = nextTask + 1
    /\ notifyPending' = [notifyPending EXCEPT ![p] = @ + 1]
    /\ UNCHANGED <<m_pool, m_queueMutex, m_waitFlag, wpc, wpool, stop_requested, job,
                   fut, execCount, dequeuedBy, movedFrom, nextWorker, ctl, waitPc,
                   batch, heldAtStop, others>>

NotifyNobody(p, pcs) == {pcs}

\* m_cv.notify_one(): one blocked worker, any of them, or none when none is blocked
NotifyOne(p, pcs) ==
    IF Blocked(p) = {} THEN {pcs}
    ELSE {[pcs EXCEPT ![w] = "start"] : w \in Blocked(p)}

\* line 41: m_cv.notify_one(), after the unlock
PushJobNotify(p) ==
    /\ notifyPending[p] > 0
    /\ notifyPending' = [notifyPending EXCEPT ![p] = @ - 1]
    /\ wpc' \in NotifyOne(p, wpc)
    /\ UNCHANGED <<m_pool, m_jobQueue, m_queueMutex, m_waitFlag, wpool,
                   stop_requested, job, fut, execCount, dequeuedBy, movedFrom, nextTask,
                   nextWorker, ctl, waitPc, batch, inPool, heldAtStop, others>>

(***************************************************************************)
(* moveTasks and pushTasks.                                                *)
(***************************************************************************)
\* moveTasks: lock; queueTmp.splice(queueTmp.end(), m_jobQueue); return queueTmp
MoveTasks(p) ==
    /\ Usable(p)
    /\ batch = <<>>
    /\ m_queueMutex[p] = NoWorker
    /\ batch' = Splice(<<>>, m_jobQueue[p])
    /\ m_jobQueue' = [m_jobQueue EXCEPT ![p] = <<>>]
    /\ movedFrom' = [t \in Tasks |-> IF t \in Range(m_jobQueue[p]) THEN p ELSE movedFrom[t]]
    /\ UNCHANGED <<m_pool, m_queueMutex, m_waitFlag, wpc, wpool, stop_requested, job,
                   fut, execCount, dequeuedBy, nextTask, nextWorker, notifyPending,
                   ctl, waitPc, inPool, heldAtStop, others>>

\* pushTasks: lock; m_jobQueue.splice(m_jobQueue.end(), tasks); no notification
PushTasks(p) ==
    /\ Usable(p)
    /\ batch # <<>>
    /\ m_queueMutex[p] = NoWorker
    /\ m_jobQueue' = [m_jobQueue EXCEPT ![p] = Splice(@, batch)]
    /\ inPool' = [t \in Tasks |-> IF t \in Range(batch) THEN p ELSE inPool[t]]
    /\ batch' = <<>>
    /\ UNCHANGED <<m_pool, m_queueMutex, m_waitFlag, wpc, wpool, stop_requested, job,
                   fut, execCount, dequeuedBy, movedFrom, nextTask, nextWorker,
                   notifyPending, ctl, waitPc, heldAtStop, others>>

(***************************************************************************)
(* waitTilEmpty.                                                           *)
(***************************************************************************)
\* line 77: m_waitFlag.test_and_set()
WaitTilEmptySet(p) ==
    /\ Usable(p)
    /\ waitPc[p] = "idle"
    /\ m_waitFlag' = [m_waitFlag EXCEPT ![p] = TRUE]
    /\ waitPc' = [waitPc EXCEPT ![p] = "waiting"]
    /\ UNCHANGED <<m_pool, m_jobQueue, m_queueMutex, wpc, wpool, stop_requested, job,
                   fut, execCount, dequeuedBy, movedFrom, nextTask, nextWorker,
                   notifyPending, ctl, batch, inPool, heldAtStop, others>>

\* line 78: m_waitFlag.wait(true) returns once the flag is seen clear
WaitTilEmptyReturn(p) ==
    /\ waitPc[p] = "waiting"
    /\ ~m_waitFlag[p]
    /\ waitPc' = [waitPc EXCEPT ![p] = "idle"]
    /\ UNCHANGED <<m_pool, m_jobQueue, m_queueMutex, m_waitFlag, wpc, wpool,
                   stop_requested, job, fut, execCount, dequeuedBy, movedFrom, nextTask,
                   nextWorker, notifyPending, ctl, batch, inPool, heldAtStop, others>>

(***************************************************************************)
(* addThreads, removeThreads and the destructor.  m_pool is guarded by no  *)
(* mutex: two threads inside these calls on the same pool at once touch it *)
(* without synchronisation.                                                *)
(***************************************************************************)
IdleAdder == [pc |-> "idle", pool |-> 0, n |-> 0, i |-> 0]

\* the second thread is inside addThreads on p while the first one is inside
\* addThreads / removeThreads on p
Overlap(p) == adder.pc = "add" /\ adder.pool = p /\ ctl[p].pc # "idle"

\* m_pool.emplace(...): with the container under modification by another thread
\* the new element is either linked in or lost
EmplaceOutcomes(p, w) ==
    IF Overlap(p) THEN {Emplace(m_pool[p], w), m_pool[p]}
    ELSE {Emplace(m_pool[p], w)}

PoolPending(p) == IF ctl[p].pc = "add" THEN ctl[p].n - ctl[p].i ELSE 0
AdderPending == IF adder.pc = "add" THEN adder.n - adder.i ELSE 0
SpawnsLeft == MaxWorkers - (nextWorker - 1) - PoolPending(1) - PoolPending(2) - AdderPending

\* line 21: addThreads(numThreads) is entered
AddThreadsCall(p, n) ==
    /\ Usable(p)
    /\ ctl[p].pc = "idle"
    /\ n <= SpawnsLeft
    /\ ctl' = [ctl EXCEPT ![p] = IF n = 0 THEN IdleCtl
                                  ELSE [IdleCtl EXCEPT !.pc = "add", !.op = "add", !.n = n]]
    /\ UNCHANGED <<m_pool, m_jobQueue, m_queueMutex, m_waitFlag, wpc, wpool,
                   stop_requested, job, fut, execCount, dequeuedBy, movedFrom, nextTask,
                   nextWorker, notifyPending, waitPc, batch, inPool, heldAtStop, others>>

\* lines 23-47: one iteration, m_pool.emplace(lambda) starts a worker
AddThreadsSpawn(p) ==
    /\ ctl[p].pc = "add"
    /\ m_pool' \in {[m_pool EXCEPT ![p] = s] : s \in EmplaceOutcomes(p, nextWorker)}
    /\ wpc' = [wpc EXCEPT ![nextWorker] = "start"]
    /\ wpool' = [wpool EXCEPT ![nextWorker] = p]
    /\ nextWorker' = nextWorker + 1
    /\ ctl' = [ctl EXCEPT ![p] = IF ctl[p].i + 1 = ctl[p].n THEN IdleCtl
                                  ELSE [ctl[p] EXCEPT !.i = @ + 1]]
    /\ UNCHANGED <<m_jobQueue, m_queueMutex, m_waitFlag, stop_requested, job, fut,
                   execCount, dequeuedBy, movedFrom, nextTask, notifyPending, waitPc,
                   batch, inPool, heldAtStop, others>>

\* line 52: limit = numThreads > getThreadCount() ? getThreadCount() : numThreads
Limit(p, n) == IF n > getThreadCount(p) THEN getThreadCount(p) ELSE n

\* request_stop() on a jthread: sets the stop state and runs the callback that the
\* worker's m_cv.wait registered, which notifies the condition variable
RequestStop(p, w, pcs) == IF pcs[w] = "waiting" THEN NotifyAll(p, pcs) ELSE pcs

\* the task a worker has taken out of the list and not yet finished
InHand(w) == IF wpc[w] = "run" THEN job[w] ELSE NoTask

\* lines 50-52: removeThreads(numThreads) is entered
RemoveThreadsCall(p, n) ==
    /\ Usable(p)
    /\ ctl[p].pc = "idle"
    /\ ctl' = [ctl EXCEPT ![p] = IF Limit(p, n) = 0 THEN IdleCtl
                                  ELSE [pc |-> "rm_stop", op |-> "remove", n |-> n,
                                        i |-> 0, limit |-> Limit(p, n),
                                        c0 |-> getThreadCount(p), sel |-> {}]]
    /\ UNCHANGED <<m_pool, m_jobQueue, m_queueMutex, m_waitFlag, wpc, wpool,
                   stop_requested, job, fut, execCount, dequeuedBy, movedFrom, nextTask,
                   nextWorker, notifyPending, waitPc, batch, inPool, heldAtStop, others>>

\* line 55: m_pool.top().request_stop()
RemoveStop(p) ==
    LET w == Top(m_pool[p]) IN
    /\ ctl[p].pc = "rm_stop"
    /\ stop_requested' = [stop_requested EXCEPT ![w] = TRUE]
    /\ wpc' = RequestStop(p, w, wpc)
    /\ heldAtStop' = [heldAtStop EXCEPT ![w] = InHand(w)]
    /\ ctl' = [ctl EXCEPT ![p].pc = "rm_notify", ![p].sel = @ \cup {w}]
    /\ UNCHANGED <<m_pool, m_jobQueue, m_queueMutex, m_waitFlag, wpool, job, fut,
                   execCount, dequeuedBy, movedFrom, nextTask, nextWorker, notifyPending,
                   waitPc, batch, inPool, others>>

\* line 56: m_cv.notify_all()
RemoveNotify(p) ==
    /\ ctl[p].pc = "rm_notify"
    /\ wpc' = NotifyAll(p, wpc)
    /\ ctl' = [ctl EXCEPT ![p].pc = "rm_pop"]
    /\ UNCHANGED <<m_pool, m_jobQueue, m_queueMutex, m_waitFlag, wpool,
                   stop_requested, job, fut, execCount, dequeuedBy, movedFrom, nextTask,
                   nextWorker, notifyPending, waitPc, batch, inPool, heldAtStop, others>>

\* lines 53 and 59: the next iteration, or the return (into the destructor's end
\* when the destructor made the call)
AfterPop(c) ==
    IF c.i + 1 < c.limit THEN [c EXCEPT !.i = @ + 1, !.pc = "rm_stop"]
    ELSE IF c.op = "destroy" THEN [c EXCEPT !.i = @ + 1, !.pc = "members"]
    ELSE IdleCtl

JoinedDetached(w) == TRUE

\* std::jthread::~jthread joins: it returns once the thread's function has returned
Joined(w) == wpc[w] = "exited"

\* line 57: m_pool.pop() destroys the top jthread, whose destructor requests the
\* stop (when nobody did) and joins: it returns once that worker has exited
RemovePop(p) ==
    LET w == Top(m_pool[p]) IN
    /\ ctl[p].pc = "rm_pop"
    /\ IF stop_requested[w]
         THEN /\ Joined(w)
              /\ m_pool' = [m_pool EXCEPT ![p] = Pop(@)]
              /\ ctl' = [ctl EXCEPT ![p] = AfterPop(ctl[p])]
              /\ UNCHANGED <<wpc, stop_requested>>
         ELSE /\ stop_requested' = [stop_requested EXCEPT ![w] = TRUE]
              /\ wpc' = RequestStop(p, w, wpc)
              /\ UNCHANGED <<m_pool>>
              /\ ctl' = [ctl EXCEPT ![p].sel = @ \cup {w}]
    /\ UNCHANGED <<m_jobQueue, m_queueMutex, m_waitFlag, wpool, job, fut, execCount,
                   dequeuedBy, movedFrom, nextTask, nextWorker, notifyPending, waitPc,
                   batch, inPool, heldAtStop, others>>

\* lines 16-18: ~ThreadPool() is entered: removeThreads(getThreadCount()).  No other
\* call on the object is in progress or begins later.
DestroyCall(p) ==
    /\ Usable(p)
    /\ ctl[p].pc = "idle"
    /\ notifyPending[p] = 0
    /\ waitPc[p] = "idle"
    /\ adder.pool # p
    /\ ctl' = [ctl EXCEPT ![p] = [pc |-> IF getThreadCount(p) = 0 THEN "members"
                                                               ELSE "rm_stop",
                                  op |-> "destroy", n |-> getThreadCount(p), i |-> 0,
                                  limit |-> Limit(p, getThreadCount(p)),
                                  c0 |-> getThreadCount(p), sel |-> {}]]
    /\ UNCHANGED <<m_pool, m_jobQueue, m_queueMutex, m_waitFlag, wpc, wpool,
                   stop_requested, job, fut, execCount, dequeuedBy, movedFrom, nextTask,
                   nextWorker, notifyPending, waitPc, batch, inPool, heldAtStop, others>>

AbandonNothing(f) == f

\* a std::packaged_task destroyed before it was invoked abandons its shared state:
\* the future holds broken_promise
Abandon(f) == IF f.st = "unset" THEN Broken ELSE f

\* line 19 and ThreadPool.h 65-68: the members are destroyed; m_jobQueue destroys
\* every packaged_task still in the list
DestroyMembers(p) ==
    /\ ctl[p].pc = "members"
    /\ fut' = [t \in Tasks |-> IF t \in Range(m_jobQueue[p]) THEN Abandon(fut[t])
                               ELSE fut[t]]
    /\ m_jobQueue' = [m_jobQueue EXCEPT ![p] = <<>>]
    /\ ctl' = [ctl EXCEPT ![p] = [IdleCtl EXCEPT !.pc = "destroyed", !.op = "destroy"]]
    /\ UNCHANGED <<m_pool, m_queueMutex, m_waitFlag, wpc, wpool, stop_requested, job,
                   execCount, dequeuedBy, movedFrom, nextTask, nextWorker, notifyPending,
                   waitPc, batch, inPool, heldAtStop, others>>

(***************************************************************************)
(* A second thread calling addThreads on a pool.                           *)
(***************************************************************************)
AdderCall(p, n) ==
    /\ Usable(p)
    /\ adder.pc = "idle"
    /\ n <= SpawnsLeft
    /\ adder' = [pc |-> "add", pool |-> p, n |-> n, i |-> 0]
    /\ UNCHANGED <<poolVars, queueVars, queueAux, chanVars>>

AdderSpawn ==
    LET p == adder.pool IN
    /\ adder.pc = "add"
    /\ m_pool' \in {[m_pool EXCEPT ![p] = s] : s \in EmplaceOutcomes(p, nextWorker)}
    /\ wpc' = [wpc EXCEPT ![nextWorker] = "start"]
    /\ wpool' = [wpool EXCEPT ![nextWorker] = p]
    /\ nextWorker' = nextWorker + 1
    /\ adder' = IF adder.i + 1 = adder.n THEN IdleAdder ELSE [adder EXCEPT !.i = @ + 1]
    /\ UNCHANGED <<m_jobQueue, m_queueMutex, m_waitFlag, stop_requested, job, fut,
                   execCount, dequeuedBy, movedFrom, nextTask, notifyPending, ctl, waitPc,
                   batch, inPool, heldAtStop, queueVars, queueAux, chanVars>>

(***************************************************************************)
(* The pools: every interleaving of the workers with one thread resizing   *)
(* or destroying each pool, the submitters, the mover and the waiter.      *)
(***************************************************************************)
\* no promise and no Future exists
ChanIdle ==
    /\ status = <<>>
    /\ storage = <<>>
    /\ m_state = <<>>
    /\ plive = <<>>
    /\ nextChannel = 0
    /\ setCalled = <<>>
    /\ m_statePtr = <<>>
    /\ flive = <<>>
    /\ ready_flag = <<>>
    /\ valid_flag = <<>>
    /\ fpc = <<>>
    /\ isValidCall = <<>>

QueueIdle ==
    /\ m_deque = <<>>
    /\ m_mtx = <<>>
    /\ qpc = <<>>
    /\ qarg = <<>>
    /\ got = <<>>
    /\ nextItem = 0
    /\ spliceCalls = <<>>
    /\ sizeSeen = <<>>

\* Spec: one pool, constructed with 0, 1 or 2 threads; pool 2 stays unused
OnePool == {<<0, 0>>, <<1, 0>>, <<2, 0>>}

PoolInit == Init(OnePool) /\ adder = IdleAdder /\ QueueIdle /\ ChanIdle

Next ==
    \/ \E w \in Workers : WorkerStep(w)
    \/ \E w \in Workers : SpuriousWake(w)
    \/ PushJob(1)
    \/ PushJobNotify(1)
    \/ \E n \in 0 .. MaxArg : AddThreadsCall(1, n)
    \/ AddThreadsSpawn(1)
    \/ \E n \in 0 .. MaxArg + 1 : RemoveThreadsCall(1, n)
    \/ RemoveStop(1)
    \/ RemoveNotify(1)
    \/ RemovePop(1)
    \/ DestroyCall(1)
    \/ DestroyMembers(1)

Spec == PoolInit /\ [][Next]_vars

\* the threads of the program are scheduled: a worker that can take a step takes
\* it, and a call that was entered runs to its end.  Nothing obliges a client to
\* enter a call, and a spurious wake-up may never come.
PoolFairness(ps) ==
    /\ \A w \in Workers : WF_vars(WorkerStep(w))
    /\ \A p \in ps : WF_vars(PushJobNotify(p))
    /\ \A p \in ps : WF_vars(AddThreadsSpawn(p))
    /\ \A p \in ps : WF_vars(RemoveStop(p) \/ RemoveNotify(p) \/ RemovePop(p))

\* FairSpec: a pool that is used and resized but not destroyed, its threads
\* scheduled fairly
FairNext ==
    \/ \E w \in Workers : WorkerStep(w)
    \/ \E w \in Workers : SpuriousWake(w)
    \/ PushJob(1)
    \/ PushJobNotify(1)
    \/ \E n \in 1 .. MaxArg : AddThreadsCall(1, n)
    \/ AddThreadsSpawn(1)
    \/ \E n \in 1 .. MaxArg : RemoveThreadsCall(1, n)
    \/ RemoveStop(1)
    \/ RemoveNotify(1)
    \/ RemovePop(1)

FairSpec == PoolInit /\ [][FairNext]_vars /\ PoolFairness({1})

\* WaitSpec: a pool of one or two workers, a submitter and a thread calling
\* waitTilEmpty; nobody resizes the pool
WithWorkers == {<<1, 0>>, <<2, 0>>}

WaitInit == Init(WithWorkers) /\ adder = IdleAdder /\ QueueIdle /\ ChanIdle

WaitNext ==
    \/ \E w \in Workers : WorkerStep(w)
    \/ \E w \in Workers : SpuriousWake(w)
    \/ PushJob(1)
    \/ PushJobNotify(1)
    \/ WaitTilEmptySet(1)
    \/ WaitTilEmptyReturn(1)

WaitSpec ==
    WaitInit /\ [][WaitNext]_vars /\ PoolFairness({1}) /\ WF_vars(WaitTilEmptyReturn(1))

\* MoveSpec: two pools, the second with a worker; tasks are submitted to either,
\* taken out with moveTasks and handed to pushTasks; nobody resizes the pools
TwoPools == {<<0, 1>>, <<1, 1>>}

MoveInit == Init(TwoPools) /\ adder = IdleAdder /\ QueueIdle /\ ChanIdle

MoveNext ==
    \/ \E w \in Workers : WorkerStep(w)
    \/ \E w \in Workers : SpuriousWake(w)
    \/ \E p \in Pools : PushJob(p)
    \/ \E p \in Pools : PushJobNotify(p)
    \/ \E p \in Pools : MoveTasks(p)
    \/ \E p \in Pools : PushTasks(p)

MoveSpec == MoveInit /\ [][MoveNext]_vars /\ PoolFairness(Pools)

\* RaceSpec: one pool that one thread resizes while a second thread calls
\* addThreads on it and a third submits
RaceNext ==
    \/ \E w \in Workers : WorkerStep(w)
    \/ \E w \in Workers : SpuriousWake(w)
    \/ PushJob(1)
    \/ PushJobNotify(1)
    \/ \E n \in 1 .. MaxArg : AddThreadsCall(1, n)
    \/ AddThreadsSpawn(1)
    \/ \E n \in 1 .. MaxArg : RemoveThreadsCall(1, n)
    \/ RemoveStop(1)
    \/ RemoveNotify(1)
    \/ RemovePop(1)
    \/ \E n \in 1 .. MaxArg : AdderCall(1, n)
    \/ AdderSpawn

RaceSpec == PoolInit /\ [][RaceNext]_vars

(***************************************************************************)
(* Claims about the worker pool.                                           *)
(***************************************************************************)
Submitted(t) == t < nextTask

Holders(t) == {w \in Workers : job[w] = t}

\* C1: every task is taken out of the job list by at most one worker and its body
\* runs at most once; no two workers hold the same task, and a task a worker took
\* is no longer in any list.
C1_AtMostOnce ==
    \A t \in Tasks :
        /\ Cardinality(dequeuedBy[t]) <= 1
        /\ execCount[t] <= 1
        /\ Cardinality(Holders(t)) <= 1
        /\ Holders(t) \subseteq dequeuedBy[t]
        /\ dequeuedBy[t] # {} => \A p \in Pools : t \notin Range(m_jobQueue[p])

\* two workers run different tasks at once while a third task is already done and
\* the pool is being resized
C1_Witness ==
    \E w1, w2 \in Workers, t \in Tasks :
        /\ w1 # w2
        /\ wpc[w1] = "run" /\ wpc[w2] = "run"
        /\ job[w1] # job[w2]
        /\ execCount[t] = 1
        /\ ctl[1].pc # "idle"

\* the pool whose list holds task t has no thread
PoolWithoutWorker(t) == inPool[t] \in Pools /\ getThreadCount(inPool[t]) = 0

\* C2: (under FairSpec) a task submitted with pushJob to a pool is eventually run and
\* its future holds the callable's result, unless the pool is left with no worker
\* or the task is taken away with moveTasks.
C2_EventuallyRun ==
    \A t \in Tasks :
        Submitted(t) ~> \/ fut[t] = Ready(Callable(t))
                        \/ PoolWithoutWorker(t)
                        \/ movedFrom[t] # 0

\* every task was submitted and has run, on a pool that kept a worker while another
\* one was removed
C2_Witness ==
    /\ \A t \in Tasks : fut[t] = Ready(Callable(t)) /\ execCount[t] = 1
    /\ getThreadCount(1) >= 1
    /\ \E w \in Workers : wpool[w] = 1 /\ wpc[w] = "exited"

\* the step on which removeThreads(n) returns after its loop
RemoveReturns(p) ==
    /\ ctl[p].op = "remove"
    /\ ctl[p].pc = "rm_pop"
    /\ ctl'[p].pc = "idle"

\* C4: removeThreads(n) on a pool with c workers has requested the stop of exactly
\* min(n, c) workers when it returns, each of them has exited, and the thread count
\* is then c - min(n, c).  (With min(n, c) = 0 the call returns at once and
\* changes nothing.)
C4_RemoveThreads ==
    [][\A p \in Pools :
          RemoveReturns(p) =>
              LET c == ctl[p].c0
                  n == ctl[p].n
              IN  /\ Cardinality(ctl[p].sel) = Min(n, c)
                  /\ \A w \in ctl[p].sel : wpc'[w] = "exited"
                  /\ Len(m_pool'[p]) = c - Min(n, c)
                  /\ ctl[p].sel \cap Range(m_pool'[p]) = {}]_vars

\* removeThreads(n) with n larger than the thread count is about to return
C4_Witness ==
    /\ ctl[1].op = "remove"
    /\ ctl[1].pc = "rm_pop"
    /\ ctl[1].n > ctl[1].c0
    /\ ctl[1].c0 = 2
    /\ ctl[1].i + 1 = ctl[1].limit
    /\ wpc[Top(m_pool[1])] = "exited"

\* C5: a task that a worker had in hand when removeThreads requested its stop is
\* never abandoned: until its future holds the callable's result the worker is
\* still running it and removeThreads is still inside its loop, waiting for that
\* worker.
C5_InHandCompletes ==
    \A w \in Workers :
        LET t == heldAtStop[w]
            p == wpool[w]
        IN  t # NoTask =>
              /\ fut[t].st # "broken"
              /\ \/ fut[t] = Ready(Callable(t)) /\ execCount[t] = 1
                 \/ /\ wpc[w] = "run"
                    /\ job[w] = t
                    /\ ctl[p].pc \in {"rm_notify", "rm_pop"}
                    /\ ctl[p].op \in {"remove", "destroy"}
                    /\ w = Top(m_pool[p])

\* removeThreads has returned after a worker finished the task it had in hand
C5_Witness ==
    \E w \in Workers :
        /\ heldAtStop[w] # NoTask
        /\ wpc[w] = "exited"
        /\ ctl[1] = IdleCtl
        /\ fut[heldAtStop[w]] = Ready(Callable(heldAtStop[w]))

\* C8: once a pool is destroyed every worker of it has exited and been joined; a
\* task submitted to it that no worker had started was never run and its future is
\* Broken; a task that was started has run once and its future holds the result.
C8_Destroyed ==
    \A p \in Pools :
        ctl[p].pc = "destroyed" =>
            /\ m_pool[p] = <<>>
            /\ \A w \in Workers : wpool[w] = p => wpc[w] = "exited"
            /\ \A t \in Tasks :
                  (Submitted(t) /\ inPool[t] = p) =>
                      IF dequeuedBy[t] = {}
                      THEN fut[t] = Broken /\ execCount[t] = 0
                      ELSE fut[t] = Ready(Callable(t)) /\ execCount[t] = 1

\* a destroyed pool with an abandoned task and a task that was in hand when the
\* destructor asked its worker to stop
C8_Witness ==
    /\ ctl[1].pc = "destroyed"
    /\ \E t \in Tasks : fut[t] = Broken
    /\ \E w \in Workers : heldAtStop[w] # NoTask

\* C3 (the claim as written; refuted under WaitSpec): every call of waitTilEmpty
\* on a pool with a worker eventually returns.
C3_WaitReturns ==
    \A p \in Pools : (waitPc[p] = "waiting") ~> (waitPc[p] = "idle")

\* the step on which moveTasks on p returns a non-empty list
MoveReturns(p) ==
    /\ batch = <<>>
    /\ batch' # <<>>
    /\ \A t \in Range(batch') : movedFrom'[t] = p

\* C6: moveTasks returns exactly the tasks that are in the job list, in the list's
\* order, and leaves the list empty; a task a worker has taken is not among them,
\* and a task of the returned list is in no pool's list, in no worker's hand and
\* has not been run.
C6_MoveTasks ==
    /\ [](\A t \in Range(batch) :
             /\ execCount[t] = 0
             /\ dequeuedBy[t] = {}
             /\ Holders(t) = {}
             /\ \A p \in Pools : t \notin Range(m_jobQueue[p]))
    /\ [][\A p \in Pools :
             MoveReturns(p) =>
                 /\ batch' = m_jobQueue[p]
                 /\ m_jobQueue'[p] = <<>>
                 /\ \A w \in Workers : job[w] # NoTask => job[w] \notin Range(batch')]_vars

\* moveTasks has returned two queued tasks while a worker of that pool is running
\* a third one
C6_Witness ==
    /\ Len(batch) = 2
    /\ \E w \in Workers, t \in Range(batch) :
          wpc[w] = "run" /\ wpool[w] = movedFrom[t]

\* C7 (the claim as written; refuted under MoveSpec): a task that pushTasks put
\* into the list of a second pool that has a worker is eventually run, unless
\* moveTasks takes it away again.
C7_PushedTasksRun ==
    \A t \in Tasks, p \in Pools :
        (/\ movedFrom[t] \notin {0, p}
         /\ inPool[t] = p
         /\ t \in Range(m_jobQueue[p])
         /\ getThreadCount(p) >= 1)
            ~> (execCount[t] = 1 \/ t \in Range(batch))

\* the threads of pool p that were started and not removed
Expected(p) ==
    Cardinality({w \in Workers :
                    /\ wpool[w] = p
                    /\ ~(wpc[w] = "exited" /\ w \notin Range(m_pool[p]))})

\* C9 (the claim as written; refuted under RaceSpec): no two threads are inside
\* calls that touch m_pool at once, and once all calls have returned the thread
\* count is the number of threads started and not removed.
C9_NoPoolRace ==
    \A p \in Pools :
        /\ ~Overlap(p)
        /\ (ctl[p].pc = "idle" /\ adder.pc = "idle") => getThreadCount(p) = Expected(p)

(***************************************************************************)
(* avenir::queue<T> (avenir.h): two queues used by MaxQThreads threads,    *)
(* each of which may push, pop, wait and splice.                           *)
(***************************************************************************)
NoCall == [q |-> 0, oth |-> 0]

\* std::deque::push_back, front, pop_front
PushedInFront(d, x) == <<x>> \o d
PushBack(d, x) == Append(d, x)
DequeFront(d) == Head(d)
PopFrontSkipped(d) == d
DequePopFront(d) == Tail(d)

\* the threads blocked in m_cv.wait or m_cv.wait_for of queue q
QBlocked(q) == {th \in QThreads : qpc[th] \in {"blocked", "timed"} /\ qarg[th].q = q}

\* m_cv.notify_one() of queue q: one of the blocked threads, any of them
QNotifyOne(q, pcs) ==
    IF QBlocked(q) = {} THEN {pcs}
    ELSE {[pcs EXCEPT ![th] = IF pcs[th] = "timed" THEN "timedwoken" ELSE "woken"] :
             th \in QBlocked(q)}

QueueInit ==
    /\ m_deque = [q \in Queues |-> <<>>]
    /\ m_mtx = [q \in Queues |-> Unlocked]
    /\ qpc = [th \in QThreads |-> "idle"]
    /\ qarg = [th \in QThreads |-> NoCall]
    /\ got = [th \in QThreads |-> <<>>]
    /\ nextItem = 1
    /\ spliceCalls = [th \in QThreads |-> 0]
    /\ sizeSeen = [th \in QThreads |-> -1]

\* push, lines 94-96: lock; m_deque.push_back(obj); unlock
QPush(th, q) ==
    /\ qpc[th] = "idle"
    /\ nextItem <= MaxItems
    /\ m_mtx[q] = Unlocked
    /\ m_deque' = [m_deque EXCEPT ![q] = PushBack(@, nextItem)]
    /\ nextItem' = nextItem + 1
    /\ qpc' = [qpc EXCEPT ![th] = "notify"]
    /\ qarg' = [qarg EXCEPT ![th] = [q |-> q, oth |-> 0]]
    /\ UNCHANGED <<m_mtx, got, poolVars, adder, queueAux, chanVars>>

\* push, line 97: m_cv.notify_one()
QPushNotify(th) ==
    /\ qpc[th] = "notify"
    /\ qpc' \in QNotifyOne(qarg[th].q, [qpc EXCEPT ![th] = "idle"])
    /\ qarg' = [qarg EXCEPT ![th] = NoCall]
    /\ UNCHANGED <<m_deque, m_mtx, got, nextItem, poolVars, adder, queueAux, chanVars>>

\* pop, lines 112-119: under the lock, the front element or nullopt
QPop(th, q) ==
    /\ qpc[th] = "idle"
    /\ m_mtx[q] = Unlocked
    /\ IF m_deque[q] # <<>>
         THEN /\ got' = [got EXCEPT ![th] = Append(@, DequeFront(m_deque[q]))]
              /\ m_deque' = [m_deque EXCEPT ![q] = DequePopFront(@)]
         ELSE UNCHANGED <<got, m_deque>>
    /\ UNCHANGED <<m_mtx, qpc, qarg, nextItem, poolVars, adder, queueAux, chanVars>>

\* wait, lines 126-133: under the lock, block while the deque is empty, then take
\* the front element
QWait(th, q) ==
    /\ qpc[th] = "idle"
    /\ m_mtx[q] = Unlocked
    /\ IF m_deque[q] # <<>>
         THEN /\ got' = [got EXCEPT ![th] = Append(@, DequeFront(m_deque[q]))]
              /\ m_deque' = [m_deque EXCEPT ![q] = DequePopFront(@)]
              /\ UNCHANGED <<qpc, qarg>>
         ELSE /\ qpc' = [qpc EXCEPT ![th] = "blocked"]
              /\ qarg' = [qarg EXCEPT ![th] = [q |-> q, oth |-> 0]]
              /\ UNCHANGED <<got, m_deque>>
    /\ UNCHANGED <<m_mtx, nextItem, poolVars, adder, queueAux, chanVars>>

\* wait, line 129: a woken thread takes the lock again and tests the predicate
QWaitWoken(th) ==
    LET q == qarg[th].q IN
    /\ qpc[th] = "woken"
    /\ m_mtx[q] = Unlocked
    /\ IF m_deque[q] # <<>>
         THEN /\ got' = [got EXCEPT ![th] = Append(@, DequeFront(m_deque[q]))]
              /\ m_deque' = [m_deque EXCEPT ![q] = DequePopFront(@)]
              /\ qpc' = [qpc EXCEPT ![th] = "idle"]
              /\ qarg' = [qarg EXCEPT ![th] = NoCall]
         ELSE /\ qpc' = [qpc EXCEPT ![th] = "blocked"]
              /\ UNCHANGED <<got, m_deque, qarg>>
    /\ UNCHANGED <<m_mtx, nextItem, poolVars, adder, queueAux, chanVars>>

\* a condition variable may wake a blocked thread without a notification
QSpuriousWake(th) ==
    /\ qpc[th] = "blocked"
    /\ qpc' = [qpc EXCEPT ![th] = "woken"]
    /\ UNCHANGED <<m_deque, m_mtx, qarg, got, nextItem, poolVars, adder, queueAux, chanVars>>

\* splice, lines 202-204: this != &oth, std::scoped_lock takes both mutexes
QSpliceLock(th, q, oth) ==
    /\ qpc[th] = "idle"
    /\ q # oth
    /\ m_mtx[q] = Unlocked
    /\ m_mtx[oth] = Unlocked
    /\ m_mtx' = [m_mtx EXCEPT ![q] = th, ![oth] = th]
    /\ qpc' = [qpc EXCEPT ![th] = "splice"]
    /\ qarg' = [qarg EXCEPT ![th] = [q |-> q, oth |-> oth]]
    /\ UNCHANGED <<m_deque, got, nextItem, poolVars, adder, queueAux, chanVars>>

\* splice, lines 205-209: one iteration moves the front of oth to the back of this
QSpliceMove(th) ==
    LET q == qarg[th].q
        oth == qarg[th].oth
    IN  /\ qpc[th] = "splice"
        /\ m_deque[oth] # <<>>
        /\ m_deque' = [m_deque EXCEPT ![q] = PushBack(@, DequeFront(m_deque[oth])),
                                      ![oth] = DequePopFront(@)]
        /\ UNCHANGED <<m_mtx, qpc, qarg, got, nextItem, poolVars, adder, queueAux, chanVars>>

\* splice, lines 205 and 210: oth is empty, the locks are released
QSpliceUnlock(th) ==
    LET q == qarg[th].q
        oth == qarg[th].oth
    IN  /\ qpc[th] = "splice"
        /\ m_deque[oth] = <<>>
        /\ m_mtx' = [m_mtx EXCEPT ![q] = Unlocked, ![oth] = Unlocked]
        /\ qpc' = [qpc EXCEPT ![th] = "idle"]
        /\ qarg' = [qarg EXCEPT ![th] = NoCall]
        /\ UNCHANGED <<m_deque, got, nextItem, poolVars, adder, queueAux, chanVars>>

\* QSpec: the queues alone; no pool is in use
QInit == Init({<<0, 0>>}) /\ adder = IdleAdder /\ QueueInit /\ ChanIdle

QNext ==
    \/ \E th \in QThreads, q \in Queues : QPush(th, q)
    \/ \E th \in QThreads : QPushNotify(th)
    \/ \E th \in QThreads, q \in Queues : QPop(th, q)
    \/ \E th \in QThreads, q \in Queues : QWait(th, q)
    \/ \E th \in QThreads : QWaitWoken(th)
    \/ \E th \in QThreads : QSpuriousWake(th)
    \/ \E th \in QThreads, q, oth \in Queues : QSpliceLock(th, q, oth)
    \/ \E th \in QThreads : QSpliceMove(th)
    \/ \E th \in QThreads : QSpliceUnlock(th)

QSpec == QInit /\ [][QNext]_vars

(***************************************************************************)
(* Claims about the queue.                                                 *)
(***************************************************************************)
Count(s, x) == Cardinality({i \in 1 .. Len(s) : s[i] = x})

RECURSIVE CountIn(_, _, _)
\* occurrences of x in f[1], ..., f[n]
CountIn(f, n, x) == IF n = 0 THEN 0 ELSE Count(f[n], x) + CountIn(f, n - 1, x)

Queued(x) == CountIn(m_deque, Cardinality(Queues), x)
Returned(x) == CountIn(got, MaxQThreads, x)

\* C10: at every moment every pushed item is in exactly one place: once in one
\* deque, or returned once by one pop / wait call; no item is lost and none is
\* returned twice.
C10_ExactlyOnce ==
    \A x \in Items :
        /\ x < nextItem => Queued(x) + Returned(x) = 1
        /\ x >= nextItem => Queued(x) + Returned(x) = 0
        /\ Returned(x) <= 1

\* a splice is under way while one consumer is blocked in wait, and two consumers
\* have each been handed an item
C10_Witness ==
    \E a, b, c \in QThreads :
        /\ a # b
        /\ got[a] # <<>> /\ got[b] # <<>>
        /\ qpc[c] = "splice"
        /\ m_deque[qarg[c].q] # <<>>
        /\ \E d \in QThreads : qpc[d] = "blocked"

(***************************************************************************)
(* wait_for, and the order in which one queue hands out its items.         *)
(***************************************************************************)
\* wait_for, lines 141-157: under the lock, take the front element, or block in
\* m_cv.wait_for when the deque is empty
QWaitFor(th, q) ==
    /\ qpc[th] = "idle"
    /\ m_mtx[q] = Unlocked
    /\ IF m_deque[q] # <<>>
         THEN /\ got' = [got EXCEPT ![th] = Append(@, DequeFront(m_deque[q]))]
              /\ m_deque' = [m_deque EXCEPT ![q] = DequePopFront(@)]
              /\ UNCHANGED <<qpc, qarg>>
         ELSE /\ qpc' = [qpc EXCEPT ![th] = "timed"]
              /\ qarg' = [qarg EXCEPT ![th] = [q |-> q, oth |-> 0]]
              /\ UNCHANGED <<got, m_deque>>
    /\ UNCHANGED <<m_mtx, nextItem, poolVars, adder, queueAux, chanVars>>

\* wait_for, line 144: notified before the time is up, the thread takes the lock
\* again and tests the predicate; it blocks again when the deque is empty
QWaitForWoken(th) ==
    LET q == qarg[th].q IN
    /\ qpc[th] = "timedwoken"
    /\ m_mtx[q] = Unlocked
    /\ IF m_deque[q] # <<>>
         THEN /\ got' = [got EXCEPT ![th] = Append(@, DequeFront(m_deque[q]))]
              /\ m_deque' = [m_deque EXCEPT ![q] = DequePopFront(@)]
              /\ qpc' = [qpc EXCEPT ![th] = "idle"]
              /\ qarg' = [qarg EXCEPT ![th] = NoCall]
         ELSE /\ qpc' = [qpc EXCEPT ![th] = "timed"]
              /\ UNCHANGED <<got, m_deque, qarg>>
    /\ UNCHANGED <<m_mtx, nextItem, poolVars, adder, queueAux, chanVars>>

\* wait_for, lines 144-153: the time is up; m_cv.wait_for returns the predicate's
\* value under the lock: the front element when there is one, else nullopt
QWaitForTimeout(th) ==
    LET q == qarg[th].q IN
    /\ qpc[th] \in {"timed", "timedwoken"}
    /\ m_mtx[q] = Unlocked
    /\ IF m_deque[q] # <<>>
         THEN /\ got' = [got EXCEPT ![th] = Append(@, DequeFront(m_deque[q]))]
              /\ m_deque' = [m_deque EXCEPT ![q] = DequePopFront(@)]
         ELSE UNCHANGED <<got, m_deque>>
    /\ qpc' = [qpc EXCEPT ![th] = "idle"]
    /\ qarg' = [qarg EXCEPT ![th] = NoCall]
    /\ UNCHANGED <<m_mtx, nextItem, poolVars, adder, queueAux, chanVars>>

\* FifoSpec: one queue, into which every thread pushes and from which every
\* thread takes with pop, wait and wait_for
FifoNext ==
    \/ \E th \in QThreads : QPush(th, 1)
    \/ \E th \in QThreads : QPushNotify(th)
    \/ \E th \in QThreads : QPop(th, 1)
    \/ \E th \in QThreads : QWait(th, 1)
    \/ \E th \in QThreads : QWaitWoken(th)
    \/ \E th \in QThreads : QSpuriousWake(th)
    \/ \E th \in QThreads : QWaitFor(th, 1)
    \/ \E th \in QThreads : QWaitForWoken(th)
    \/ \E th \in QThreads : QWaitForTimeout(th)

FifoSpec == QInit /\ [][FifoNext]_vars

\* C11: items leave a queue in the order in which they were pushed into it (items
\* are numbered in the order of the push calls' critical sections, so two items of
\* one producer are numbered in its program order): an item that was removed has
\* no earlier item behind it in the deque, the deque holds its items in push
\* order, and every consumer received its items in push order.
C11_PushOrder ==
    /\ \A x, y \in Items : (x < y /\ Returned(y) = 1) => Returned(x) = 1
    /\ \A q \in Queues : \A i, j \in 1 .. Len(m_deque[q]) :
          i < j => m_deque[q][i] < m_deque[q][j]
    /\ \A th \in QThreads : \A i, j \in 1 .. Len(got[th]) :
          i < j => got[th][i] < got[th][j]

\* two consumers have each taken an item, the second one later than the first,
\* a third item is queued, and a thread is blocked in wait_for
C11_Witness ==
    /\ \E a, b \in QThreads : a # b /\ got[a] # <<>> /\ got[b] # <<>>
    /\ m_deque[1] # <<>>
    /\ \E th \in QThreads : qpc[th] = "timed"

(***************************************************************************)
(* splice called from two threads in opposite directions.                  *)
(***************************************************************************)
LockOneByOne(th, q, oth, mtx) ==
    IF mtx[q] = Unlocked THEN [mtx EXCEPT ![q] = th]
    ELSE IF mtx[q] = th /\ mtx[oth] = Unlocked THEN [mtx EXCEPT ![oth] = th]
    ELSE mtx

\* std::scoped_lock lock(m_mtx, oth.m_mtx): both mutexes are taken with the
\* deadlock-avoidance of std::lock, which never waits while holding one of them;
\* the caller ends up with both or (still waiting) with none
ScopedLock(th, q, oth, mtx) ==
    IF mtx[q] = Unlocked /\ mtx[oth] = Unlocked THEN [mtx EXCEPT ![q] = th, ![oth] = th]
    ELSE mtx

\* splice, lines 200-202: the call is entered; with this == &oth it returns at once
QSpliceEnter(th, q, oth) ==
    /\ qpc[th] = "idle"
    /\ spliceCalls[th] < MaxSplices
    /\ spliceCalls' = [spliceCalls EXCEPT ![th] = @ + 1]
    /\ IF q = oth
         THEN UNCHANGED <<qpc, qarg>>
         ELSE /\ qpc' = [qpc EXCEPT ![th] = "spl_enter"]
              /\ qarg' = [qarg EXCEPT ![th] = [q |-> q, oth |-> oth]]
    /\ UNCHANGED <<m_deque, m_mtx, got, nextItem, sizeSeen, poolVars, adder, chanVars>>

\* splice, line 204: the scoped_lock is constructed
QSpliceAcquire(th) ==
    LET q == qarg[th].q
        oth == qarg[th].oth
        m == ScopedLock(th, q, oth, m_mtx)
    IN  /\ qpc[th] = "spl_enter"
        /\ m # m_mtx
        /\ m_mtx' = m
        /\ qpc' = [qpc EXCEPT ![th] = IF m[q] = th /\ m[oth] = th THEN "splice"
                                      ELSE "spl_enter"]
        /\ UNCHANGED <<m_deque, qarg, got, nextItem, poolVars, adder, queueAux, chanVars>>

\* the queues hold items 1 .. k and k + 1 .. n, pushed earlier
SpliceInit ==
    /\ Init({<<0, 0>>})
    /\ adder = IdleAdder
    /\ \E n \in 0 .. MaxItems : \E k \in 0 .. n :
          /\ m_deque = [q \in Queues |-> IF q = 1 THEN [i \in 1 .. k |-> i]
                                         ELSE [i \in 1 .. n - k |-> k + i]]
          /\ nextItem = n + 1
    /\ m_mtx = [q \in Queues |-> Unlocked]
    /\ qpc = [th \in QThreads |-> "idle"]
    /\ qarg = [th \in QThreads |-> NoCall]
    /\ got = [th \in QThreads |-> <<>>]
    /\ spliceCalls = [th \in QThreads |-> 0]
    /\ sizeSeen = [th \in QThreads |-> -1]
    /\ ChanIdle

\* SpliceSpec: every thread calls splice, on any two queues in any direction; a
\* thread inside a call is scheduled
SpliceNext ==
    \/ \E th \in QThreads, q, oth \in Queues : QSpliceEnter(th, q, oth)
    \/ \E th \in QThreads : QSpliceAcquire(th)
    \/ \E th \in QThreads : QSpliceMove(th)
    \/ \E th \in QThreads : QSpliceUnlock(th)

SpliceSpec ==
    /\ SpliceInit
    /\ [][SpliceNext]_vars
    /\ \A th \in QThreads :
          WF_vars(QSpliceAcquire(th) \/ QSpliceMove(th) \/ QSpliceUnlock(th))

InSplice(th) == qpc[th] \in {"spl_enter", "splice"}

\* C12: (under SpliceSpec) every call of splice returns, also when another thread
\* runs splice on the same two queues in the opposite direction, and the two
\* queues together hold as many elements as before at every moment.
C12_SpliceTerminates ==
    /\ [](Len(m_deque[1]) + Len(m_deque[2]) = nextItem - 1)
    /\ \A th \in QThreads : InSplice(th) ~> (qpc[th] = "idle")

\* one thread is moving elements from a non-empty queue while another has
\* entered splice on the same two queues in the opposite direction
C12_Witness ==
    \E a, b \in QThreads :
        /\ qpc[a] = "splice"
        /\ qpc[b] = "spl_enter"
        /\ qarg[a].q = qarg[b].oth
        /\ qarg[a].oth = qarg[b].q
        /\ m_deque[qarg[a].oth] # <<>>
        /\ m_deque[qarg[a].q] # <<>>

(***************************************************************************)
(* size() and empty(): they read m_deque without taking m_mtx.             *)
(***************************************************************************)
\* another thread is inside a critical section of queue q
Mutating(th, q) == m_mtx[q] \notin {Unlocked, th}

\* what m_deque.size() can return: the size, or, read while another thread is
\* modifying the deque (a data race), any value
SizeOutcomes(th, q) ==
    IF Mutating(th, q) THEN 0 .. MaxItems ELSE {Len(m_deque[q])}

\* size / empty, lines 213-221: the call is entered; no lock is taken
QSizeBegin(th, q) ==
    /\ qpc[th] = "idle"
    /\ qpc' = [qpc EXCEPT ![th] = "size"]
    /\ qarg' = [qarg EXCEPT ![th] = [q |-> q, oth |-> 0]]
    /\ UNCHANGED <<m_deque, m_mtx, got, nextItem, poolVars, adder, queueAux, chanVars>>

\* size / empty, lines 215 and 220: m_deque is read and the value returned
QSizeEnd(th) ==
    /\ qpc[th] = "size"
    /\ sizeSeen' \in {[sizeSeen EXCEPT ![th] = v] : v \in SizeOutcomes(th, qarg[th].q)}
    /\ qpc' = [qpc EXCEPT ![th] = "idle"]
    /\ qarg' = [qarg EXCEPT ![th] = NoCall]
    /\ UNCHANGED <<m_deque, m_mtx, got, nextItem, spliceCalls, poolVars, adder, chanVars>>

\* SizeSpec: the calls of QSpec, and size() / empty() called at any moment
SizeNext ==
    \/ QNext
    \/ \E th \in QThreads, q \in Queues : QSizeBegin(th, q)
    \/ \E th \in QThreads : QSizeEnd(th)

SizeSpec == QInit /\ [][SizeNext]_vars

\* C13 (the claim as written; refuted under SizeSpec): while a thread is inside
\* size() or empty() no other thread is inside a critical section of that queue,
\* and the value returned is a size the queue can have had (at most the number of
\* items pushed so far).
C13_SizeSafe ==
    \A th \in QThreads :
        /\ qpc[th] = "size" => ~Mutating(th, qarg[th].q)
        /\ sizeSeen[th] <= nextItem - 1

(***************************************************************************)
(* The promise / future channel: avenir::promise (avenir.h) and            *)
(* avenir::Future (include/Future.h).  No thread uses the pools or the     *)
(* queues here.                                                            *)
(***************************************************************************)
nonChan == <<poolVars, adder, queueVars, queueAux>>

BreakAlways(st) == StatusBroken

\* ~promise / operator=, lines 265-267: if(m_state->status == 0) status = 2
BreakIfUnset(st) == IF st = StatusUnset THEN StatusBroken ELSE st

\* the channel a handle gives up becomes Broken when it was Unset
GiveUp(ch, sts) == IF ch = Null THEN sts ELSE [sts EXCEPT ![ch] = BreakIfUnset(@)]

ChanInit ==
    /\ status = [ch \in Channels |-> StatusUnset]
    /\ storage = [ch \in Channels |-> 0]
    /\ m_state = [pr \in Promises |-> Null]
    /\ plive = [pr \in Promises |-> FALSE]
    /\ nextChannel = 1
    /\ setCalled = [ch \in Channels |-> 0]
    /\ m_statePtr = [f \in Futures |-> Null]
    /\ flive = [f \in Futures |-> FALSE]
    /\ ready_flag = [ch \in Channels |-> FALSE]
    /\ valid_flag = [ch \in Channels |-> FALSE]
    /\ fpc = [f \in Futures |-> "idle"]
    /\ isValidCall = [f \in Futures |-> [ptr |-> Null, res |-> "none"]]

\* promise<void>(bool ready), promise<T>(), promise<T>(obj): std::make_shared of a
\* state that is Unset, or Ready with the value v (v = 0: no value)
PromiseConstruct(pr, ready, v) ==
    /\ ~plive[pr]
    /\ nextChannel <= MaxChannels
    /\ status' = [status EXCEPT ![nextChannel] = IF ready THEN StatusReady
                                                  ELSE StatusUnset]
    /\ storage' = [storage EXCEPT ![nextChannel] = IF ready THEN v ELSE 0]
    /\ m_state' = [m_state EXCEPT ![pr] = nextChannel]
    /\ plive' = [plive EXCEPT ![pr] = TRUE]
    /\ nextChannel' = nextChannel + 1
    /\ UNCHANGED <<setCalled, m_statePtr, flive, ready_flag, valid_flag, fpc,
                   isValidCall, nonChan>>

\* promise(promise&& oth) : m_state(std::move(oth.m_state))
PromiseMoveConstruct(pr, oth) ==
    /\ ~plive[pr]
    /\ plive[oth]
    /\ m_state' = [m_state EXCEPT ![pr] = m_state[oth], ![oth] = Null]
    /\ plive' = [plive EXCEPT ![pr] = TRUE]
    /\ UNCHANGED <<status, storage, nextChannel, setCalled, m_statePtr, flive,
                   ready_flag, valid_flag, fpc, isValidCall, nonChan>>

\* ~promise(): under the state's mutex an Unset status becomes Broken, then
\* cv.notify_all(); then the member m_state is destroyed
PromiseDestroy(pr) ==
    /\ plive[pr]
    /\ status' = GiveUp(m_state[pr], status)
    /\ m_state' = [m_state EXCEPT ![pr] = Null]
    /\ plive' = [plive EXCEPT ![pr] = FALSE]
    /\ UNCHANGED <<storage, nextChannel, setCalled, m_statePtr, flive,
                   ready_flag, valid_flag, fpc, isValidCall, nonChan>>

\* operator=(promise&& oth): nothing when this == &oth; else the channel held is
\* given up as in the destructor, and m_state = std::move(oth.m_state)
PromiseMoveAssign(pr, oth) ==
    /\ plive[pr]
    /\ plive[oth]
    /\ pr # oth
    /\ status' = GiveUp(m_state[pr], status)
    /\ m_state' = [m_state EXCEPT ![pr] = m_state[oth], ![oth] = Null]
    /\ UNCHANGED <<storage, plive, nextChannel, setCalled, m_statePtr, flive,
                   ready_flag, valid_flag, fpc, isValidCall, nonChan>>

\* promise<void>::set(): the body is empty (a TODO); promise<T> declares no set.
\* The call is recorded, the channel is left as it was.
PromiseSet(pr, v) ==
    /\ plive[pr]
    /\ m_state[pr] # Null
    /\ status[m_state[pr]] = StatusUnset
    /\ setCalled[m_state[pr]] = 0
    /\ setCalled' = [setCalled EXCEPT ![m_state[pr]] = v]
    /\ UNCHANGED <<status, storage, m_state, plive, nextChannel, m_statePtr, flive,
                   ready_flag, valid_flag, fpc, isValidCall, nonChan>>

\* Future(statePtr, dataPtr), the private constructor a promise is to call: the
\* Future shares the State that goes with the promise's channel
FutureCreate(f, pr) ==
    /\ plive[pr]
    /\ m_state[pr] # Null
    /\ ~flive[f]
    /\ m_statePtr' = [m_statePtr EXCEPT ![f] = m_state[pr]]
    /\ flive' = [flive EXCEPT ![f] = TRUE]
    /\ UNCHANGED <<status, storage, m_state, plive, nextChannel, setCalled,
                   ready_flag, valid_flag, fpc, isValidCall, nonChan>>

\* Future(const Future&) / operator=(const Future&): g becomes a copy of f
FutureCopy(f, g) ==
    /\ f # g
    /\ fpc[f] = "idle" /\ fpc[g] = "idle"
    /\ m_statePtr[f] # Null
    /\ m_statePtr[g] # m_statePtr[f]
    /\ m_statePtr' = [m_statePtr EXCEPT ![g] = m_statePtr[f]]
    /\ flive' = [flive EXCEPT ![g] = TRUE]
    /\ UNCHANGED <<status, storage, m_state, plive, nextChannel, setCalled,
                   ready_flag, valid_flag, fpc, isValidCall, nonChan>>

\* Future(Future&&) / operator=(Future&&): g takes f's pointer, f is left empty
FutureMove(f, g) ==
    /\ f # g
    /\ fpc[f] = "idle" /\ fpc[g] = "idle"
    /\ m_statePtr[f] # Null
    /\ m_statePtr' = [m_statePtr EXCEPT ![g] = m_statePtr[f], ![f] = Null]
    /\ flive' = [flive EXCEPT ![g] = TRUE]
    /\ UNCHANGED <<status, storage, m_state, plive, nextChannel, setCalled,
                   ready_flag, valid_flag, fpc, isValidCall, nonChan>>

\* wait() and get(): m_statePtr->ready_flag.wait(false) blocks while the flag is
\* clear.  Nothing in the repository sets ready_flag, so the call has no return.
FutureWait(f, call) ==
    /\ fpc[f] = "idle"
    /\ m_statePtr[f] # Null
    /\ ~ready_flag[m_statePtr[f]]
    /\ fpc' = [fpc EXCEPT ![f] = call]
    /\ UNCHANGED <<status, storage, m_state, plive, nextChannel, setCalled,
                   m_statePtr, flive, ready_flag, valid_flag, isValidCall, nonChan>>

\* m_statePtr->valid_flag.test(): the flag's value; through an empty m_statePtr a
\* null pointer is dereferenced, which is undefined: any outcome
IsValidOutcomes(f) ==
    IF m_statePtr[f] = Null THEN {"true", "false", "crash"}
    ELSE IF valid_flag[m_statePtr[f]] THEN {"true"} ELSE {"false"}

\* isValid()
FutureIsValid(f) ==
    /\ flive[f]
    /\ fpc[f] = "idle"
    /\ isValidCall' \in {[isValidCall EXCEPT ![f] = [ptr |-> m_statePtr[f], res |-> r]] :
                            r \in IsValidOutcomes(f)}
    /\ isValidCall' # isValidCall
    /\ UNCHANGED <<status, storage, m_state, plive, nextChannel, setCalled,
                   m_statePtr, flive, ready_flag, valid_flag, fpc, nonChan>>

\* ChanSpec: promises are constructed, moved, assigned, set and destroyed, Futures
\* are obtained, copied, moved, asked isValid and waited on, in any order
ChanNext ==
    \/ \E pr \in Promises : PromiseConstruct(pr, FALSE, 0)
    \/ \E pr \in Promises, v \in Values : PromiseConstruct(pr, TRUE, v)
    \/ \E pr, oth \in Promises : PromiseMoveConstruct(pr, oth)
    \/ \E pr \in Promises : PromiseDestroy(pr)
    \/ \E pr, oth \in Promises : PromiseMoveAssign(pr, oth)
    \/ \E pr \in Promises, v \in Values : PromiseSet(pr, v)
    \/ \E f \in Futures, pr \in Promises : FutureCreate(f, pr)
    \/ \E f, g \in Futures : FutureCopy(f, g)
    \/ \E f, g \in Futures : FutureMove(f, g)
    \/ \E f \in Futures : FutureWait(f, "wait")
    \/ \E f \in Futures : FutureWait(f, "get")
    \/ \E f \in Futures : FutureIsValid(f)

ChanSpecInit == Init({<<0, 0>>}) /\ adder = IdleAdder /\ QueueIdle /\ ChanInit

ChanSpec == ChanSpecInit /\ [][ChanNext]_vars

\* BrokenSpec: promises are constructed Unset, assigned and destroyed while Futures
\* of their channels are obtained, copied and waited on; every thread that can
\* take a step is scheduled
BrokenNext ==
    \/ \E pr \in Promises : PromiseConstruct(pr, FALSE, 0)
    \/ \E pr \in Promises : PromiseDestroy(pr)
    \/ \E pr, oth \in Promises : PromiseMoveAssign(pr, oth)
    \/ \E f \in Futures, pr \in Promises : FutureCreate(f, pr)
    \/ \E f, g \in Futures : FutureCopy(f, g)
    \/ \E f \in Futures : FutureWait(f, "wait")
    \/ \E f \in Futures : FutureWait(f, "get")

BrokenSpec == ChanSpecInit /\ [][BrokenNext]_vars /\ WF_vars(BrokenNext)

\* PromSpec: the promises alone
PromNext ==
    \/ \E pr \in Promises : PromiseConstruct(pr, FALSE, 0)
    \/ \E pr \in Promises, v \in Values : PromiseConstruct(pr, TRUE, v)
    \/ \E pr, oth \in Promises : PromiseMoveConstruct(pr, oth)
    \/ \E pr \in Promises : PromiseDestroy(pr)
    \/ \E pr, oth \in Promises : PromiseMoveAssign(pr, oth)
    \/ \E pr \in Promises, v \in Values : PromiseSet(pr, v)

PromSpec == ChanSpecInit /\ [][PromNext]_vars

Allocated(ch) == ch < nextChannel

\* C17: the status of a channel that is Ready or Broken never changes again,
\* whatever is done to the promises (construction, move, assignment, destruction).
C17_StatusOnce ==
    [][\A ch \in Channels :
          (Allocated(ch) /\ status[ch] \in {StatusReady, StatusBroken})
              => (status'[ch] = status[ch] /\ storage'[ch] = storage[ch])]_vars

\* a channel constructed Ready whose promise is gone, next to a Broken channel
C17_Witness ==
    \E c1, c2 \in Channels :
        /\ Allocated(c1) /\ Allocated(c2)
        /\ status[c1] = StatusReady
        /\ status[c2] = StatusBroken
        /\ \A pr \in Promises : m_state[pr] = Null

\* C14 (the claim as written; refuted under ChanSpec): once set(v) has been called
\* on a promise whose channel was Unset, the channel is Ready, it stores v, and
\* the Futures of the channel are released (their ready_flag is set).
C14_SetDelivers ==
    \A ch \in Channels :
        setCalled[ch] # 0 =>
            /\ status[ch] = StatusReady
            /\ storage[ch] = setCalled[ch]
            /\ ready_flag[ch]

\* C15 (the claim as written; refuted under BrokenSpec): a Future blocked in wait()
\* or get() on a channel that has become Broken returns.
C15_BrokenWakes ==
    \A f \in Futures :
        (/\ fpc[f] \in {"wait", "get"}
         /\ m_statePtr[f] # Null
         /\ status[m_statePtr[f]] = StatusBroken)
            ~> (fpc[f] = "idle")

\* C16 (the claim as written; refuted under ChanSpec): isValid() called on a
\* Future whose pointer is empty returns false, without failing, and it returns
\* true only on a Future that references a channel.
C16_IsValidSafe ==
    \A f \in Futures :
        /\ isValidCall[f].ptr = Null => isValidCall[f].res \in {"none", "false"}
        /\ isValidCall[f].res = "true" => isValidCall[f].ptr # Null


(***************************************************************************)
(* Claims about stopping a worker, waitTilEmpty and the queue mutex.       *)
(***************************************************************************)
\* the tasks worker w has taken out of the list
Dequeued(w) == {t \in Tasks : w \in dequeuedBy[t]}

\* one step of the program, seen from worker w
StepUnderStop(w) ==
    \* a worker whose stop is requested dequeues only when it had already passed
    \* the stop check of its iteration, and never begins another dequeue
    /\ (stop_requested[w] /\ wpc'[w] = "popping") => wpc[w] = "popping"
    /\ (stop_requested[w] /\ wpc[w] # "popping") => Dequeued(w)' = Dequeued(w)
    \* a stop that arrives while the worker is blocked wakes it
    /\ (~stop_requested[w] /\ stop_requested'[w]) => wpc'[w] # "waiting"
    \* the task being run is run to its end
    /\ wpc[w] = "run" =>
          \/ wpc'[w] = "run" /\ job'[w] = job[w]
          \/ /\ wpc'[w] = "check"
             /\ execCount'[job[w]] = execCount[job[w]] + 1
             /\ fut'[job[w]] = Ready(Callable(job[w]))
    \* a worker that has exited does nothing more
    /\ wpc[w] = "exited" => wpc'[w] = "exited" /\ Dequeued(w)' = Dequeued(w)

\* C18: (under FairSpec) after a stop is requested on a worker it starts at most
\* one more task, one it was already dequeuing when the stop arrived, and then
\* exits; a worker that is blocked when the stop arrives exits without dequeuing,
\* and a task that is being run is never interrupted.
C18_StopIsCoarse ==
    /\ [][\A w \in Workers : StepUnderStop(w)]_vars
    /\ \A w \in Workers : stop_requested[w] ~> (wpc[w] = "exited")

\* one worker was stopped while idle and exited with a task still in the list and
\* none dequeued; another is running the task it was dequeuing when its stop came
C18_Witness ==
    \E w, v \in Workers :
        /\ stop_requested[v] /\ wpc[v] = "exited" /\ Dequeued(v) = {}
        /\ m_jobQueue[1] # <<>>
        /\ stop_requested[w] /\ wpc[w] = "run" /\ heldAtStop[w] = NoTask


\* the step on which a worker's m_waitFlag.clear() releases the thread that is
\* inside waitTilEmpty on pool p
Releases(p) == waitPc[p] = "waiting" /\ m_waitFlag[p] /\ ~m_waitFlag'[p]

\* C19 (the claim as written; refuted under WaitSpec): the thread inside
\* waitTilEmpty is released only on an observation of the empty job list that
\* still stands: no pushJob has put a task into the list since.
C19_ReleasedOnEmpty ==
    [][\A p \in Pools : Releases(p) => m_jobQueue[p] = <<>>]_vars


\* the step on which worker w touches the job list: front() and pop_front() at
\* lines 31-32, empty() at line 38
TouchesList(w) == wpc[w] \in {"popping", "check"} /\ wpc'[w] # wpc[w]

\* C20 (the claim as written; refuted under Spec): a worker reads or writes the
\* job list only while it holds m_queueMutex.
C20_ListUnderMutex ==
    [][\A w \in Workers : TouchesList(w) => m_queueMutex[wpool[w]] = w]_vars

====
